---- MODULE Spec2Model ----
(***************************************************************************)
(* Hash-Map: the open-addressing map (hash_map_oa.py, quadratic probing    *)
(* with tombstones) and the chained map (hash_map_sc.py, one linked list   *)
(* per bucket), each a HashMap object with the fields _buckets, _capacity, *)
(* _size and _hash_function.                                               *)
(*                                                                         *)
(* A state is one HashMap object (variant says of which class) plus the    *)
(* history a caller can see: the abstract dictionary its completed calls   *)
(* describe, the keys ever put, and the last call with the state it was    *)
(* made in.  A method is an operator from a map record                     *)
(*   [buckets, capacity, size, outcome]                                    *)
(* to the map record it leaves; outcome is "returned", "raised" (an index  *)
(* outside the bucket array) or "diverged" (the probe loop never ends).    *)
(***************************************************************************)
EXTENDS Integers, Sequences, FiniteSets, TLC

\* ---- bounds of the model -------------------------------------------------
NumKeys == 3        \* keys are 1..NumKeys
MaxVal == 2         \* values are 1..MaxVal
MaxMul == 1         \* hash functions k |-> k * m, m in 0..MaxMul
MaxInitCap == 4     \* requested capacity at construction, up to
NegInitCap == 3     \* requested capacity at construction, down to -NegInitCap
MaxResize == 5      \* argument of an explicit resize_table, up to

MaxPrimeArg == 60   \* argument of _is_prime and _next_prime called alone, up to

\* the constructor's default capacity
DefaultCapacity == 11

Keys == 1..NumKeys
Values == 1..MaxVal
\* Python's None as a returned value (values are >= 1)
None == 0
\* a bucket-array slot holding None (open addressing)
EmptySlot == [empty |-> TRUE]
\* what get_bucket_index yields besides an index
Diverged == -1
IndexError == -2

\* the constant function (every key collides), the identity, multiples of it
HashFunctions == { [k \in Keys |-> k * m] : m \in 0..MaxMul }
ResizeArgs == (-1)..MaxResize

VARIABLES variant, hash_function, buckets, capacity, size, model, ever, last

vars == <<variant, hash_function, buckets, capacity, size, model, ever, last>>

\* ---- capacity manager (the same code in both files) ----------------------
\* the trial division with the loop test `factor ** 2 < capacity`
RECURSIVE trial_division_strict(_, _)
trial_division_strict(n, factor) ==
    IF factor * factor < n
    THEN IF n % factor = 0 THEN FALSE ELSE trial_division_strict(n, factor + 2)
    ELSE TRUE

RECURSIVE trial_division(_, _)
trial_division(n, factor) ==
    IF factor * factor <= n
    THEN IF n % factor = 0 THEN FALSE ELSE trial_division(n, factor + 2)
    ELSE TRUE

is_prime(n) ==
    IF n = 2 \/ n = 3 THEN TRUE
    ELSE IF n = 1 \/ n % 2 = 0 THEN FALSE
    ELSE trial_division(n, 3)

RECURSIVE next_prime_loop(_)
next_prime_loop(c) == IF is_prime(c) THEN c ELSE next_prime_loop(c + 2)

next_prime(n) == next_prime_loop(IF n % 2 = 0 THEN n + 1 ELSE n)

\* a prime number, by definition
IsPrimeNumber(n) == n >= 2 /\ \A d \in 2..(n - 1) : n % d # 0

\* ---- map records ---------------------------------------------------------
MapOf(b, c, s) == [buckets |-> b, capacity |-> c, size |-> s, outcome |-> "returned"]

\* range(capacity) slots: none when capacity <= 0
oa_new_buckets(c) == [i \in 0..(c - 1) |-> EmptySlot]

HashEntry(key, value) == [key |-> key, value |-> value, is_tombstone |-> FALSE]

\* `bucket and not bucket.is_tombstone`
IsLive(bucket) == bucket # EmptySlot /\ ~bucket.is_tombstone

\* the growth test written `> 0.5`
oa_load_above_half(m) ==
    IF m.capacity > 0 THEN 2 * m.size > m.capacity ELSE 2 * m.size < m.capacity

\* size / capacity >= 0.5 (capacity is never 0)
oa_load_at_least_half(m) ==
    IF m.capacity > 0 THEN 2 * m.size >= m.capacity ELSE 2 * m.size <= m.capacity

\* ---- open addressing: hash_map_oa.py -------------------------------------
\* the probe loop matching the key on live entries only: the key's own tombstone
\* is stepped over like another key's entry
RECURSIVE oa_probe_live_match(_, _, _, _, _)
oa_probe_live_match(m, key, initial, j, index) ==
    IF index \notin DOMAIN m.buckets THEN IndexError
    ELSE IF m.buckets[index] = EmptySlot THEN index
    ELSE IF IsLive(m.buckets[index]) /\ m.buckets[index].key = key THEN index
    ELSE IF j >= m.capacity THEN Diverged
    ELSE oa_probe_live_match(m, key, initial, j + 1, (initial + j * j) % m.capacity)

\* the probe loop stepping by j instead of j^2 (linear probing)
RECURSIVE oa_probe_linear(_, _, _, _, _)
oa_probe_linear(m, key, initial, j, index) ==
    IF index \notin DOMAIN m.buckets THEN IndexError
    ELSE IF m.buckets[index] = EmptySlot THEN index
    ELSE IF m.buckets[index].key = key THEN index
    ELSE IF j >= m.capacity THEN Diverged
    ELSE oa_probe_linear(m, key, initial, j + 1, (initial + j) % m.capacity)

\* The loop of get_bucket_index, at the slot `index` with the step counter j
\* (index = (initial + (j-1)^2) % capacity). The offsets j^2 % capacity repeat
\* with period capacity, so after capacity slots without an exit the loop
\* never exits.
RECURSIVE oa_probe(_, _, _, _, _)
oa_probe(m, key, initial, j, index) ==
    IF index \notin DOMAIN m.buckets THEN IndexError
    ELSE IF m.buckets[index] = EmptySlot THEN index
    ELSE IF m.buckets[index].key = key THEN index
    ELSE IF j >= m.capacity THEN Diverged
    ELSE oa_probe(m, key, initial, j + 1, (initial + j * j) % m.capacity)

\* get_bucket_index with the loop `while bucket and not bucket.is_tombstone`:
\* a tombstone ends the probe like an empty slot
RECURSIVE oa_probe_tombstone_ends(_, _, _, _, _)
oa_probe_tombstone_ends(m, key, initial, j, index) ==
    IF index \notin DOMAIN m.buckets THEN IndexError
    ELSE IF ~IsLive(m.buckets[index]) THEN index
    ELSE IF m.buckets[index].key = key THEN index
    ELSE IF j >= m.capacity THEN Diverged
    ELSE oa_probe_tombstone_ends(m, key, initial, j + 1, (initial + j * j) % m.capacity)

oa_get_bucket_index_tombstone_ends(m, h, key) ==
    IF m.capacity < 1 THEN IndexError
    ELSE oa_probe_tombstone_ends(m, key, h[key] % m.capacity, 1, h[key] % m.capacity)

oa_get_bucket_index(m, h, key) ==
    IF m.capacity < 1 THEN IndexError
    ELSE oa_probe(m, key, h[key] % m.capacity, 1, h[key] % m.capacity)

RECURSIVE oa_collect(_, _)
oa_collect(m, num) ==
    IF num >= m.capacity THEN <<>>
    ELSE (IF IsLive(m.buckets[num])
          THEN << <<m.buckets[num].key, m.buckets[num].value>> >>
          ELSE <<>>) \o oa_collect(m, num + 1)

oa_get_keys_and_values(m) == oa_collect(m, 0)

\* clear that empties the live slots only: tombstones stay
oa_clear_keeps_tombstones(m) ==
    [m EXCEPT !.buckets = [i \in DOMAIN m.buckets |->
                              IF IsLive(m.buckets[i]) THEN EmptySlot ELSE m.buckets[i]],
              !.size = 0]

oa_clear(m) == [m EXCEPT !.buckets = oa_new_buckets(m.capacity), !.size = 0]

RECURSIVE oa_put(_, _, _, _)
RECURSIVE oa_resize_table(_, _, _)
RECURSIVE oa_reinsert(_, _, _, _)

\* put from line 92 on: the probe and the write
oa_place(m, h, key, value) ==
    LET index == oa_get_bucket_index(m, h, key) IN
    IF index = Diverged THEN [m EXCEPT !.outcome = "diverged"]
    ELSE IF index = IndexError THEN [m EXCEPT !.outcome = "raised"]
    ELSE IF IsLive(m.buckets[index])
         THEN [m EXCEPT !.buckets[index].value = value]
         ELSE [m EXCEPT !.buckets[index] = HashEntry(key, value),
                        !.size = m.size + 1]

\* the growth asking for capacity + 1 instead of capacity * 2
oa_grow_by_one(m, h) ==
    IF oa_load_at_least_half(m) THEN oa_resize_table(m, h, m.capacity + 1) ELSE m

\* put up to line 89: the growth
oa_grow(m, h) ==
    IF oa_load_at_least_half(m) THEN oa_resize_table(m, h, m.capacity * 2) ELSE m

oa_put(m, h, key, value) ==
    LET grown == oa_grow(m, h) IN
    IF grown.outcome # "returned" THEN grown ELSE oa_place(grown, h, key, value)

\* the reinsertion loop over range(length - 1): the last pair is dropped
RECURSIVE oa_reinsert_dropping(_, _, _, _)
oa_reinsert_dropping(m, h, key_val_arr, num) ==
    IF num >= Len(key_val_arr) \/ m.outcome # "returned" THEN m
    ELSE oa_reinsert_dropping(oa_put(m, h, key_val_arr[num][1], key_val_arr[num][2]),
                              h, key_val_arr, num + 1)

oa_reinsert(m, h, key_val_arr, num) ==
    IF num > Len(key_val_arr) \/ m.outcome # "returned" THEN m
    ELSE oa_reinsert(oa_put(m, h, key_val_arr[num][1], key_val_arr[num][2]),
                     h, key_val_arr, num + 1)

\* resize_table without its first test
oa_resize_accepted_always(m, new_capacity) == TRUE

\* resize_table with its first test inverted
oa_resize_accepted_inverted(m, new_capacity) == new_capacity < m.size

oa_resize_accepted(m, new_capacity) == ~(new_capacity < m.size)

oa_new_capacity(new_capacity) ==
    IF ~is_prime(new_capacity) THEN next_prime(new_capacity) ELSE new_capacity

oa_resize_table(m, h, new_capacity) ==
    IF ~oa_resize_accepted(m, new_capacity) THEN m
    ELSE oa_reinsert(oa_clear([m EXCEPT !.capacity = oa_new_capacity(new_capacity)]),
                     h, oa_get_keys_and_values(m), 1)

\* what a call that only reads hands back: how it ended and, when it returned, what
ReadResult(outcome, value) == [outcome |-> outcome, value |-> value]

ProbeOutcome(index) ==
    IF index = Diverged THEN "diverged" ELSE IF index = IndexError THEN "raised" ELSE "returned"

oa_get(m, h, key) ==
    LET index == oa_get_bucket_index(m, h, key) IN
    IF index < 0 THEN ReadResult(ProbeOutcome(index), None)
    ELSE IF IsLive(m.buckets[index]) THEN ReadResult("returned", m.buckets[index].value)
    ELSE ReadResult("returned", None)

oa_contains_key(m, h, key) ==
    IF m.size = 0 THEN ReadResult("returned", FALSE)
    ELSE LET index == oa_get_bucket_index(m, h, key) IN
         IF index < 0 THEN ReadResult(ProbeOutcome(index), FALSE)
         ELSE ReadResult("returned", IsLive(m.buckets[index]))

\* remove that sets the slot back to None instead of flagging it
oa_remove_clearing(m, h, key) ==
    LET index == oa_get_bucket_index(m, h, key) IN
    IF index = Diverged THEN [m EXCEPT !.outcome = "diverged"]
    ELSE IF index = IndexError THEN [m EXCEPT !.outcome = "raised"]
    ELSE IF IsLive(m.buckets[index])
         THEN [m EXCEPT !.buckets[index] = EmptySlot, !.size = m.size - 1]
         ELSE m

\* remove that flags the slot and leaves the size as it was
oa_remove_keeps_size(m, h, key) ==
    LET index == oa_get_bucket_index(m, h, key) IN
    IF index = Diverged THEN [m EXCEPT !.outcome = "diverged"]
    ELSE IF index = IndexError THEN [m EXCEPT !.outcome = "raised"]
    ELSE IF IsLive(m.buckets[index])
         THEN [m EXCEPT !.buckets[index].is_tombstone = TRUE]
         ELSE m

oa_remove(m, h, key) ==
    LET index == oa_get_bucket_index(m, h, key) IN
    IF index = Diverged THEN [m EXCEPT !.outcome = "diverged"]
    ELSE IF index = IndexError THEN [m EXCEPT !.outcome = "raised"]
    ELSE IF IsLive(m.buckets[index])
         THEN [m EXCEPT !.buckets[index].is_tombstone = TRUE, !.size = m.size - 1]
         ELSE m

\* table_load: the exact quotient size / capacity, as the pair <<size, capacity>>
oa_table_load(m) == <<m.size, m.capacity>>

\* empty_buckets counting every slot without a live entry, tombstones too
oa_empty_buckets_counts_tombstones(m) ==
    Cardinality({num \in 0..(m.capacity - 1) : ~IsLive(m.buckets[num])})

oa_empty_buckets(m) ==
    Cardinality({num \in 0..(m.capacity - 1) : m.buckets[num] = EmptySlot})

\* ---- the chain of one bucket (LinkedList of hash_map_include) -------------
\* a chain is the sequence of its nodes [key, value], head first
LinkedList == <<>>

\* contains(key): the position of the node with that key, 0 for None
ll_contains(chain, key) ==
    IF \E i \in 1..Len(chain) : chain[i].key = key
    THEN CHOOSE i \in 1..Len(chain) :
             chain[i].key = key /\ \A j \in 1..(i - 1) : chain[j].key # key
    ELSE 0

ll_insert(chain, key, value) == Append(chain, [key |-> key, value |-> value])

\* remove(key): the chain without the first node holding key
ll_remove(chain, key) ==
    LET i == ll_contains(chain, key) IN
    IF i = 0 THEN chain ELSE SubSeq(chain, 1, i - 1) \o SubSeq(chain, i + 1, Len(chain))

\* ---- separate chaining: hash_map_sc.py ------------------------------------
sc_new_buckets(c) == [i \in 0..(c - 1) |-> LinkedList]

\* hash(key) % capacity, IndexError when that is no index of the bucket array
sc_index(m, h, key) ==
    IF m.capacity < 1 THEN IndexError
    ELSE IF (h[key] % m.capacity) \in DOMAIN m.buckets THEN h[key] % m.capacity
    ELSE IndexError

\* put that doubles the table first when the load factor is 0.5 or more, as the
\* open-addressing put does
RECURSIVE sc_resize_table(_, _, _)
sc_put_growing(m, h, key, value) ==
    LET grown == IF 2 * m.size >= m.capacity /\ m.capacity >= 1
                 THEN sc_resize_table(m, h, m.capacity * 2) ELSE m
        index == sc_index(grown, h, key)
    IN IF index = IndexError THEN [grown EXCEPT !.outcome = "raised"]
       ELSE LET node == ll_contains(grown.buckets[index], key) IN
            IF node # 0
            THEN [grown EXCEPT !.buckets[index][node].value = value]
            ELSE [grown EXCEPT !.buckets[index] = ll_insert(grown.buckets[index], key, value),
                               !.size = grown.size + 1]

\* put that never looks for the key in the chain
sc_put_always_inserts(m, h, key, value) ==
    LET index == sc_index(m, h, key) IN
    IF index = IndexError THEN [m EXCEPT !.outcome = "raised"]
    ELSE [m EXCEPT !.buckets[index] = ll_insert(m.buckets[index], key, value),
                   !.size = m.size + 1]

sc_put(m, h, key, value) ==
    LET index == sc_index(m, h, key) IN
    IF index = IndexError THEN [m EXCEPT !.outcome = "raised"]
    ELSE LET node == ll_contains(m.buckets[index], key) IN
         IF node # 0
         THEN [m EXCEPT !.buckets[index][node].value = value]
         ELSE [m EXCEPT !.buckets[index] = ll_insert(m.buckets[index], key, value),
                        !.size = m.size + 1]

sc_empty_buckets(m) ==
    Cardinality({num \in 0..(m.capacity - 1) : Len(m.buckets[num]) = 0})

sc_table_load(m) == <<m.size, m.capacity>>

sc_clear(m) == [m EXCEPT !.buckets = sc_new_buckets(m.capacity), !.size = 0]

RECURSIVE sc_collect(_, _)
sc_collect(m, num) ==
    IF num >= m.capacity THEN <<>>
    ELSE [i \in 1..Len(m.buckets[num]) |->
              <<m.buckets[num][i].key, m.buckets[num][i].value>>]
         \o sc_collect(m, num + 1)

sc_get_keys_and_values(m) == sc_collect(m, 0)

RECURSIVE sc_reinsert(_, _, _, _)
sc_reinsert(m, h, key_val_arr, num) ==
    IF num > Len(key_val_arr) \/ m.outcome # "returned" THEN m
    ELSE sc_reinsert(sc_put(m, h, key_val_arr[num][1], key_val_arr[num][2]),
                     h, key_val_arr, num + 1)

sc_resize_accepted(m, new_capacity) == ~(new_capacity < 1)

sc_new_capacity(new_capacity) ==
    IF ~is_prime(new_capacity) THEN next_prime(new_capacity) ELSE new_capacity

sc_resize_table(m, h, new_capacity) ==
    IF ~sc_resize_accepted(m, new_capacity) THEN m
    ELSE sc_reinsert(sc_clear([m EXCEPT !.capacity = sc_new_capacity(new_capacity)]),
                     h, sc_get_keys_and_values(m), 1)

sc_get(m, h, key) ==
    LET index == sc_index(m, h, key) IN
    IF index = IndexError THEN ReadResult("raised", None)
    ELSE LET node == ll_contains(m.buckets[index], key) IN
         IF node # 0 THEN ReadResult("returned", m.buckets[index][node].value)
         ELSE ReadResult("returned", None)

sc_contains_key(m, h, key) ==
    LET index == sc_index(m, h, key) IN
    IF index = IndexError THEN ReadResult("raised", FALSE)
    ELSE ReadResult("returned", ll_contains(m.buckets[index], key) # 0)

sc_remove(m, h, key) ==
    LET index == sc_index(m, h, key) IN
    IF index = IndexError THEN [m EXCEPT !.outcome = "raised"]
    ELSE IF ll_contains(m.buckets[index], key) # 0
         THEN [m EXCEPT !.buckets[index] = ll_remove(m.buckets[index], key),
                        !.size = m.size - 1]
         ELSE m

\* ---- the object and its caller -------------------------------------------
Variants == {"oa", "sc"}

new_buckets(v, c) == IF v = "oa" THEN oa_new_buckets(c) ELSE sc_new_buckets(c)
put(v, m, h, key, value) ==
    IF v = "oa" THEN oa_put(m, h, key, value) ELSE sc_put(m, h, key, value)
remove(v, m, h, key) == IF v = "oa" THEN oa_remove(m, h, key) ELSE sc_remove(m, h, key)
clear(v, m) == IF v = "oa" THEN oa_clear(m) ELSE sc_clear(m)
resize_table(v, m, h, n) ==
    IF v = "oa" THEN oa_resize_table(m, h, n) ELSE sc_resize_table(m, h, n)
get(v, m, h, key) == IF v = "oa" THEN oa_get(m, h, key) ELSE sc_get(m, h, key)
contains_key(v, m, h, key) ==
    IF v = "oa" THEN oa_contains_key(m, h, key) ELSE sc_contains_key(m, h, key)
table_load(v, m) == IF v = "oa" THEN oa_table_load(m) ELSE sc_table_load(m)
empty_buckets(v, m) == IF v = "oa" THEN oa_empty_buckets(m) ELSE sc_empty_buckets(m)
get_keys_and_values(v, m) ==
    IF v = "oa" THEN oa_get_keys_and_values(m) ELSE sc_get_keys_and_values(m)
resize_accepted(v, m, n) ==
    IF v = "oa" THEN oa_resize_accepted(m, n) ELSE sc_resize_accepted(m, n)

\* the object now
Cur == MapOf(buckets, capacity, size)

\* the last call: its name and arguments, the object before it (pre) and, for a
\* put, at line 92 (mid), how it ended and what it returned
Call(op, key, arg, pre, mid, outcome, result) ==
    [op |-> op, key |-> key, arg |-> arg, pre |-> pre, mid |-> mid,
     outcome |-> outcome, result |-> result]

\* a call whose loop never ends is never followed by another call
Running == last.outcome # "diverged"

Commit(r) == buckets' = r.buckets /\ capacity' = r.capacity /\ size' = r.size

\* HashMap(capacity = requested, function = h), lines 13-26 of either file
Construct(v, h, requested) ==
    /\ variant = v
    /\ hash_function = h
    /\ capacity = next_prime(requested)
    /\ buckets = new_buckets(v, next_prime(requested))
    /\ size = 0
    /\ model = [k \in Keys |-> None]
    /\ ever = {}
    /\ last = Call("__init__", 0, requested,
                   MapOf(<<>>, 0, 0), MapOf(<<>>, 0, 0), "returned", None)

Init == \E v \in Variants, h \in HashFunctions, requested \in 1..MaxInitCap :
            Construct(v, h, requested)

InitAnyCapacity ==
    \E v \in Variants, h \in HashFunctions, requested \in (-NegInitCap)..MaxInitCap :
        Construct(v, h, requested)

Put(key, value) ==
    /\ Running
    /\ LET mid == IF variant = "oa" THEN oa_grow(Cur, hash_function) ELSE Cur
           r == put(variant, Cur, hash_function, key, value)
       IN /\ Commit(r)
          /\ model' = IF r.outcome = "returned" THEN [model EXCEPT ![key] = value] ELSE model
          /\ ever' = IF r.outcome = "returned" THEN ever \cup {key} ELSE ever
          /\ last' = Call("put", key, value, Cur, mid, r.outcome, None)
    /\ UNCHANGED <<variant, hash_function>>

Remove(key) ==
    /\ Running
    /\ LET r == remove(variant, Cur, hash_function, key)
       IN /\ Commit(r)
          /\ model' = IF r.outcome = "returned" THEN [model EXCEPT ![key] = None] ELSE model
          /\ last' = Call("remove", key, 0, Cur, Cur, r.outcome, None)
    /\ UNCHANGED <<variant, hash_function, ever>>

Clear ==
    /\ Running
    /\ Commit(clear(variant, Cur))
    /\ model' = [k \in Keys |-> None]
    /\ last' = Call("clear", 0, 0, Cur, Cur, "returned", None)
    /\ UNCHANGED <<variant, hash_function, ever>>

ResizeTable(new_capacity) ==
    /\ Running
    /\ LET r == resize_table(variant, Cur, hash_function, new_capacity)
       IN /\ Commit(r)
          /\ last' = Call("resize_table", 0, new_capacity, Cur, Cur, r.outcome, None)
    /\ UNCHANGED <<variant, hash_function, model, ever>>

Get(key) ==
    /\ Running
    /\ LET r == get(variant, Cur, hash_function, key)
       IN last' = Call("get", key, 0, Cur, Cur, r.outcome, r.value)
    /\ UNCHANGED <<variant, hash_function, buckets, capacity, size, model, ever>>

ContainsKey(key) ==
    /\ Running
    /\ LET r == contains_key(variant, Cur, hash_function, key)
       IN last' = Call("contains_key", key, 0, Cur, Cur, r.outcome, r.value)
    /\ UNCHANGED <<variant, hash_function, buckets, capacity, size, model, ever>>

TableLoad ==
    /\ Running
    /\ last' = Call("table_load", 0, 0, Cur, Cur, "returned", table_load(variant, Cur))
    /\ UNCHANGED <<variant, hash_function, buckets, capacity, size, model, ever>>

EmptyBuckets ==
    /\ Running
    /\ last' = Call("empty_buckets", 0, 0, Cur, Cur, "returned", empty_buckets(variant, Cur))
    /\ UNCHANGED <<variant, hash_function, buckets, capacity, size, model, ever>>

GetKeysAndValues ==
    /\ Running
    /\ last' = Call("get_keys_and_values", 0, 0, Cur, Cur, "returned",
                    get_keys_and_values(variant, Cur))
    /\ UNCHANGED <<variant, hash_function, buckets, capacity, size, model, ever>>

Next ==
    \/ \E key \in Keys, value \in Values : Put(key, value)
    \/ \E key \in Keys : Remove(key)
    \/ Clear
    \/ \E new_capacity \in ResizeArgs : ResizeTable(new_capacity)
    \/ \E key \in Keys : Get(key)
    \/ \E key \in Keys : ContainsKey(key)
    \/ TableLoad
    \/ EmptyBuckets
    \/ GetKeysAndValues

Spec == Init /\ [][Next]_vars

SpecAnyCapacity == InitAnyCapacity /\ [][Next]_vars

\* ---- the capacity manager called alone ------------------------------------
\* HashMap() with the default capacity, then calls of _is_prime and _next_prime
InitPrime == \E v \in Variants, h \in HashFunctions : Construct(v, h, DefaultCapacity)

IsPrimeCall(n) ==
    /\ last' = Call("_is_prime", 0, n, Cur, Cur, "returned", is_prime(n))
    /\ UNCHANGED <<variant, hash_function, buckets, capacity, size, model, ever>>

NextPrimeCall(n) ==
    /\ last' = Call("_next_prime", 0, n, Cur, Cur, "returned", next_prime(n))
    /\ UNCHANGED <<variant, hash_function, buckets, capacity, size, model, ever>>

NextPrime ==
    \/ \E n \in 1..MaxPrimeArg : IsPrimeCall(n)
    \/ \E n \in 1..MaxPrimeArg : NextPrimeCall(n)

SpecPrime == InitPrime /\ [][NextPrime]_vars

\* ---- what the claims speak of ---------------------------------------------
\* the set of (key, value) pairs get_keys_and_values lists
Entries(v, m) ==
    LET arr == get_keys_and_values(v, m) IN {arr[i] : i \in 1..Len(arr)}

\* the keys with a live entry in an open-addressing bucket array
oa_live_keys(m) == {m.buckets[i].key : i \in {n \in DOMAIN m.buckets : IsLive(m.buckets[n])}}

\* the keys with a node in some chain
sc_present_keys(m) ==
    UNION { {m.buckets[i][n].key : n \in 1..Len(m.buckets[i])} : i \in DOMAIN m.buckets }

OA == variant = "oa"
SC == variant = "sc"
Returned(op) == last.op = op /\ last.outcome = "returned"

\* C1: open addressing: every put, get, contains_key and remove terminates, and
\* in every reachable state the probe of every key ends at the key's slot or at
\* a never-occupied slot.
C1_EveryProbeTerminates ==
    OA => /\ last.outcome # "diverged"
          /\ \A key \in Keys : oa_get_bucket_index(Cur, hash_function, key) # Diverged

\* C2: open addressing: a key whose last completed operation was put(k, v), with
\* no later remove(k) or clear, has get(k) = v and contains_key(k) = True.
C2_GetReturnsLastPut ==
    OA => \A key \in Keys :
              model[key] # None =>
                  /\ oa_get(Cur, hash_function, key) = ReadResult("returned", model[key])
                  /\ oa_contains_key(Cur, hash_function, key) = ReadResult("returned", TRUE)

\* C2 witness: a key put earlier is still held after a put of another key grew the
\* table, and some key was put and removed before
C2_Witness ==
    /\ OA /\ Returned("put")
    /\ last.mid.capacity # last.pre.capacity
    /\ \E key \in Keys \ {last.key} : model[key] # None
    /\ \E key \in Keys : model[key] = None /\ key \in ever

\* C3: open addressing: for every key never inserted, get returns None and
\* contains_key returns False, in every reachable state.
C3_NeverInsertedIsAbsent ==
    OA => \A key \in Keys \ ever :
              /\ oa_get(Cur, hash_function, key) = ReadResult("returned", None)
              /\ oa_contains_key(Cur, hash_function, key) = ReadResult("returned", FALSE)

\* C4 as claimed: open addressing: after any put returns, table_load() < 0.5 or the
\* put updated a key that was live.
C4_LoadBelowHalfAfterPut ==
    (OA /\ Returned("put")) =>
        \/ 2 * size < capacity
        \/ last.key \in oa_live_keys(last.pre)

\* C4 as amended: open addressing: after any put returns, the load factor the key
\* was placed under was below 0.5: (size - 1) / capacity < 0.5 when the key was
\* not live before, table_load() < 0.5 when the put updated a live key.
C4_LoadBelowHalfWhenPlaced ==
    (OA /\ Returned("put")) =>
        /\ 2 * last.mid.size < last.mid.capacity
        /\ capacity = last.mid.capacity
        /\ IF last.key \in oa_live_keys(last.pre)
           THEN size = last.mid.size /\ 2 * size < capacity
           ELSE size = last.mid.size + 1 /\ 2 * (size - 1) < capacity

\* C4 witness: a put of a new key returned and left the load at 0.5 or above
C4_Witness ==
    /\ OA /\ Returned("put")
    /\ last.key \notin oa_live_keys(last.pre)
    /\ 2 * size >= capacity

\* C5: open addressing: remove(k) of a live key makes contains_key(k) False, takes 1
\* from size, keeps the slot occupied as a tombstone, and leaves get(k') of every
\* other live key as it was; remove(k) of a key that is not live changes neither
\* size nor capacity nor any slot.
C5_RemoveEffect ==
    (OA /\ last.op = "remove") =>
        IF last.key \in oa_live_keys(last.pre)
        THEN /\ last.outcome = "returned"
             /\ oa_contains_key(Cur, hash_function, last.key) = ReadResult("returned", FALSE)
             /\ size = last.pre.size - 1
             /\ capacity = last.pre.capacity
             /\ \E index \in DOMAIN buckets :
                    /\ IsLive(last.pre.buckets[index])
                    /\ last.pre.buckets[index].key = last.key
                    /\ buckets = [last.pre.buckets EXCEPT ![index].is_tombstone = TRUE]
             /\ \A other \in oa_live_keys(last.pre) \ {last.key} :
                    oa_get(Cur, hash_function, other) = oa_get(last.pre, hash_function, other)
        ELSE /\ size = last.pre.size
             /\ capacity = last.pre.capacity
             /\ buckets = last.pre.buckets

\* C5 witness: a live key was removed while another key was live
C5_Witness ==
    /\ OA /\ Returned("remove")
    /\ last.key \in oa_live_keys(last.pre)
    /\ oa_live_keys(last.pre) # {last.key}

\* C6: open addressing: every resize, the explicit resize_table(n) with n >= size
\* and the growth inside put, also one that grows again while it reinserts, keeps
\* the set of live (key, value) pairs and the size, and lists no pair twice.
C6_ResizeKeepsEntries ==
    OA => /\ (last.op = "resize_table" /\ last.arg >= last.pre.size) =>
                 /\ last.outcome = "returned"
                 /\ Entries("oa", Cur) = Entries("oa", last.pre)
                 /\ size = last.pre.size
                 /\ Len(oa_get_keys_and_values(Cur)) = Cardinality(Entries("oa", Cur))
          /\ last.op = "put" =>
                 /\ last.mid.outcome = "returned"
                 /\ Entries("oa", last.mid) = Entries("oa", last.pre)
                 /\ last.mid.size = last.pre.size
                 /\ Len(oa_get_keys_and_values(last.mid))
                        = Cardinality(Entries("oa", last.mid))

\* C6 witness: an explicit resize of a map of two or more entries grew again while
\* it reinserted them
C6_Witness ==
    /\ OA /\ Returned("resize_table")
    /\ last.arg >= last.pre.size
    /\ last.pre.size >= 2
    /\ capacity # oa_new_capacity(last.arg)

\* C7: chaining: the map is an abstract dictionary: get(k) is the value of the last
\* put(k, v) not followed by remove(k) or clear and None for an absent key,
\* contains_key(k) tells presence, put adds 1 to size for a new key and 0 for a
\* present one, remove takes exactly 1 for a present key and changes nothing for
\* an absent one.
C7_ChainedIsDictionary ==
    SC => /\ \A key \in Keys :
                 /\ sc_get(Cur, hash_function, key) = ReadResult("returned", model[key])
                 /\ sc_contains_key(Cur, hash_function, key)
                        = ReadResult("returned", model[key] # None)
          /\ size = Cardinality({key \in Keys : model[key] # None})
          /\ last.op = "put" =>
                 /\ last.outcome = "returned"
                 /\ size = last.pre.size
                           + (IF last.key \in sc_present_keys(last.pre) THEN 0 ELSE 1)
          /\ last.op = "remove" =>
                 /\ last.outcome = "returned"
                 /\ IF last.key \in sc_present_keys(last.pre)
                    THEN size = last.pre.size - 1
                    ELSE Cur = last.pre

\* C7 witness: one of two keys chained in the same bucket was removed
C7_Witness ==
    /\ SC /\ Returned("remove")
    /\ \E i \in DOMAIN last.pre.buckets :
           /\ Len(last.pre.buckets[i]) >= 2
           /\ \E n \in 1..Len(last.pre.buckets[i]) : last.pre.buckets[i][n].key = last.key
    /\ size = last.pre.size - 1

\* the smallest prime number above n
NextPrimeAbove(n) == CHOOSE p \in (n + 1)..(2 * n + 2) :
                        IsPrimeNumber(p) /\ \A q \in (n + 1)..(p - 1) : ~IsPrimeNumber(q)

\* C8: chaining: resize_table(n) with n >= 1 sets the capacity to n when n is prime
\* and to the next prime above n otherwise, keeps the set of (key, value) pairs and
\* the size, and leaves every node in the bucket hash(key) mod capacity.
C8_ChainedResize ==
    (SC /\ last.op = "resize_table" /\ last.arg >= 1) =>
        /\ last.outcome = "returned"
        /\ capacity = IF IsPrimeNumber(last.arg) THEN last.arg ELSE NextPrimeAbove(last.arg)
        /\ Entries("sc", Cur) = Entries("sc", last.pre)
        /\ size = last.pre.size
        /\ \A i \in DOMAIN buckets : \A n \in 1..Len(buckets[i]) :
               i = hash_function[buckets[i][n].key] % capacity

\* C9: a rejected resize, resize_table(n) with n below size (open addressing) or
\* n < 1 (chaining), returns and leaves capacity, size and every bucket as they were.
C9_RejectedResizeIsNoOp ==
    (/\ last.op = "resize_table"
     /\ \/ OA /\ last.arg < last.pre.size
        \/ SC /\ last.arg < 1) =>
        /\ last.outcome = "returned"
        /\ capacity = last.pre.capacity
        /\ size = last.pre.size
        /\ buckets = last.pre.buckets

\* C9 witness: open addressing rejected a positive capacity below its size, with a
\* tombstone in the bucket array
C9_Witness ==
    /\ OA /\ Returned("resize_table")
    /\ last.arg >= 1
    /\ last.arg < last.pre.size
    /\ \E i \in DOMAIN buckets : buckets[i] # EmptySlot /\ buckets[i].is_tombstone

\* C10: in both variants the capacity is a positive prime number in every reachable
\* state, whatever integer capacity was requested at construction and whatever
\* resize_table calls were accepted.
C10_CapacityIsPrime == IsPrimeNumber(capacity)

\* C11 as claimed: in either variant, after any resize_table call, accepted or
\* rejected, and after any automatic growth, capacity >= size.
C11_CapacityAtLeastSize ==
    (last.op = "resize_table" \/ (OA /\ last.op = "put")) => capacity >= size

\* C11 as amended: in the open-addressing map capacity >= size after any
\* resize_table call and after any growth inside put (at line 92 and on return);
\* in the chained map an accepted resize_table(n) leaves capacity >= n and the
\* size as it was, which may be above the capacity.
C11_OpenAddressingCapacityAtLeastSize ==
    /\ (OA /\ last.op = "resize_table") => capacity >= size
    /\ (OA /\ last.op = "put") =>
           /\ last.mid.capacity >= last.mid.size
           /\ capacity >= size
    /\ (SC /\ last.op = "resize_table" /\ last.arg >= 1) =>
           /\ capacity >= last.arg
           /\ size = last.pre.size

\* C11 witness: the chained map was resized to a capacity below its size
C11_Witness ==
    /\ SC /\ Returned("resize_table")
    /\ last.arg >= 1
    /\ capacity < size

\* C12: for every n in 1..MaxPrimeArg, _is_prime(n) is true exactly when n is a
\* prime number and _next_prime(n) is a prime p >= n; next_prime(4) = 5,
\* next_prime(11) = 11, is_prime(1) = false, is_prime(2) = true.
C12_CapacityManager ==
    /\ last.op = "_is_prime" =>
           /\ last.result = IsPrimeNumber(last.arg)
           /\ last.arg = 1 => last.result = FALSE
           /\ last.arg = 2 => last.result = TRUE
    /\ last.op = "_next_prime" =>
           /\ IsPrimeNumber(last.result)
           /\ last.result >= last.arg
           /\ last.arg = 4 => last.result = 5
           /\ last.arg = 11 => last.result = 11

\* C12 witness: _next_prime was called on an odd square and stepped past it
C12_Witness ==
    /\ last.op = "_next_prime"
    /\ last.arg = 25
    /\ last.result = 29

\* C13: clear() in both variants sets size to 0, leaves the capacity as it was and
\* leaves a bucket array of exactly capacity empty slots (open addressing: None, no
\* tombstone; chaining: a chain of length 0), so that every key is absent and
\* empty_buckets() = capacity.
C13_ClearEffect ==
    last.op = "clear" =>
        /\ last.outcome = "returned"
        /\ size = 0
        /\ capacity = last.pre.capacity
        /\ DOMAIN buckets = 0..(capacity - 1)
        /\ OA => \A i \in DOMAIN buckets : buckets[i] = EmptySlot
        /\ SC => \A i \in DOMAIN buckets : Len(buckets[i]) = 0
        /\ \A key \in Keys :
               /\ get(variant, Cur, hash_function, key) = ReadResult("returned", None)
               /\ contains_key(variant, Cur, hash_function, key)
                      = ReadResult("returned", FALSE)
        /\ empty_buckets(variant, Cur) = capacity

\* C13 witness: an open-addressing map holding a live entry and a tombstone was cleared
C13_Witness ==
    /\ OA /\ Returned("clear")
    /\ \E i \in DOMAIN last.pre.buckets : IsLive(last.pre.buckets[i])
    /\ \E i \in DOMAIN last.pre.buckets :
           last.pre.buckets[i] # EmptySlot /\ last.pre.buckets[i].is_tombstone

\* C14: the capacity changes only inside the open-addressing put or an explicit
\* resize_table: the chained put, get, contains_key, remove and clear leave the
\* capacity as it was whatever the load factor; the open-addressing get,
\* contains_key, table_load, empty_buckets and get_keys_and_values change neither
\* capacity nor size nor any slot, and remove changes only the tombstone flag of
\* the removed key's slot and the size.
C14_GrowthOnlyInPutOrResize ==
    /\ (last.op # "__init__" /\ capacity # last.pre.capacity) =>
           (last.op = "resize_table" \/ (OA /\ last.op = "put"))
    /\ (SC /\ last.op \in {"put", "get", "contains_key", "remove", "clear"}) =>
           capacity = last.pre.capacity
    /\ (OA /\ last.op \in {"get", "contains_key", "table_load", "empty_buckets",
                             "get_keys_and_values"}) =>
           Cur = [last.pre EXCEPT !.outcome = "returned"]
    /\ (OA /\ last.op = "remove") =>
           /\ capacity = last.pre.capacity
           /\ size \in {last.pre.size, last.pre.size - 1}
           /\ DOMAIN buckets = DOMAIN last.pre.buckets
           /\ \A i \in DOMAIN buckets :
                  \/ buckets[i] = last.pre.buckets[i]
                  \/ /\ last.pre.buckets[i] # EmptySlot
                     /\ last.pre.buckets[i].key = last.key
                     /\ buckets[i] = [last.pre.buckets[i] EXCEPT !.is_tombstone = TRUE]

\* C14 witness: a chained put returned with as many entries as buckets, or more
C14_Witness ==
    /\ SC /\ Returned("put")
    /\ size > last.pre.size
    /\ size >= capacity

\* a slot holding an entry that is flagged as a tombstone
IsTombstone(bucket) == bucket # EmptySlot /\ bucket.is_tombstone

\* C15: no key is stored twice. Open addressing: each key occupies at most one
\* slot, tombstones counted; put(k, v) with a tombstone of k in the array rewrites
\* that slot as a live entry (size + 1) and makes no second slot; a put never
\* overwrites another key's tombstone. Chaining: each key is in at most one node,
\* and that node is in the bucket hash(key) mod capacity.
C15_KeyUniqueness ==
    /\ OA =>
          /\ \A i, j \in DOMAIN buckets :
                 (i # j /\ buckets[i] # EmptySlot /\ buckets[j] # EmptySlot)
                     => buckets[i].key # buckets[j].key
          /\ Returned("put") =>
                 \A i \in DOMAIN last.mid.buckets :
                     IsTombstone(last.mid.buckets[i]) =>
                         IF last.mid.buckets[i].key = last.key
                         THEN /\ buckets = [last.mid.buckets EXCEPT
                                               ![i] = HashEntry(last.key, last.arg)]
                              /\ size = last.mid.size + 1
                         ELSE buckets[i] = last.mid.buckets[i]
    /\ SC =>
          /\ \A i \in DOMAIN buckets : \A n \in 1..Len(buckets[i]) :
                 /\ i = hash_function[buckets[i][n].key] % capacity
                 /\ \A j \in DOMAIN buckets : \A k \in 1..Len(buckets[j]) :
                        (<<i, n>> # <<j, k>>) => buckets[i][n].key # buckets[j][k].key

\* C15 witness: a put rewrote the tombstone of its key while the tombstone of
\* another key was in the array
C15_Witness ==
    /\ OA /\ Returned("put")
    /\ \E i, j \in DOMAIN last.mid.buckets :
           /\ IsTombstone(last.mid.buckets[i]) /\ last.mid.buckets[i].key = last.key
           /\ IsTombstone(last.mid.buckets[j]) /\ last.mid.buckets[j].key # last.key
           /\ IsLive(buckets[i])

\* C16: open addressing: the size counter is the number of slots holding a live
\* entry, and 0 <= size <= capacity, in every reachable state.
C16_SizeCountsLiveSlots ==
    OA => /\ size = Cardinality({i \in DOMAIN buckets : IsLive(buckets[i])})
          /\ 0 <= size
          /\ size <= capacity

\* C16 witness: two live entries beside a tombstone
C16_Witness ==
    /\ OA
    /\ size = 2
    /\ \E i \in DOMAIN buckets : IsTombstone(buckets[i])

\* C17: open addressing: after an accepted explicit resize_table(n), n >= size, the
\* capacity is n when n is prime and the next prime above n otherwise, and every
\* live entry was reinserted under that capacity.
C17_ExplicitResizeCapacity ==
    (OA /\ Returned("resize_table") /\ last.arg >= last.pre.size) =>
        /\ capacity = IF IsPrimeNumber(last.arg) THEN last.arg ELSE NextPrimeAbove(last.arg)
        /\ Entries("oa", Cur) = Entries("oa", last.pre)
        /\ \A key \in oa_live_keys(last.pre) :
               oa_get(Cur, hash_function, key) = oa_get(last.pre, hash_function, key)

\* the smallest prime number that is n or more
PrimeAtOrAbove(n) == CHOOSE p \in n..(2 * n) :
                        IsPrimeNumber(p) /\ \A q \in n..(p - 1) : ~IsPrimeNumber(q)

\* C18: open addressing: put grows the table exactly when size / capacity >= 0.5 as
\* put is entered, for a new key and for an update alike; the growth sets the
\* capacity to the next prime at or above twice the old capacity, before the key
\* is placed; a put entered with size / capacity < 0.5 leaves the capacity as it was.
C18_PutGrowsAtHalf ==
    (OA /\ Returned("put")) =>
        /\ capacity = last.mid.capacity
        /\ last.key \notin oa_live_keys(last.pre) => last.key \notin oa_live_keys(last.mid)
        /\ IF 2 * last.pre.size >= last.pre.capacity
           THEN capacity = PrimeAtOrAbove(2 * last.pre.capacity)
           ELSE capacity = last.pre.capacity /\ last.mid = last.pre

\* C18 witness: a put that updated a live key grew the table
C18_Witness ==
    /\ OA /\ Returned("put")
    /\ last.key \in oa_live_keys(last.pre)
    /\ capacity > last.pre.capacity

\* the slots of an open-addressing array that hold an entry, live or tombstoned
Occupied(m) == {i \in DOMAIN m.buckets : m.buckets[i] # EmptySlot}

\* the slot the probe of key examines after t steps, in a table of capacity c
ProbeSlot(key, c, t) == ((hash_function[key] % c) + t * t) % c

\* C19: open addressing: a key with no entry in the array is stored in the first
\* slot of initial, (initial + 1) mod capacity, (initial + 4) mod capacity,
\* (initial + 9) mod capacity, ... that holds no entry, the offsets taken from
\* initial = hash(key) mod capacity; with capacity 5 the second of two keys with
\* the same initial index lands at (initial + 1) mod 5.
C19_QuadraticProbe ==
    (/\ OA /\ last.op = "put" /\ last.mid.outcome = "returned"
     /\ \A i \in Occupied(last.mid) : last.mid.buckets[i].key # last.key
     /\ \E t \in 0..(last.mid.capacity - 1) :
            ProbeSlot(last.key, last.mid.capacity, t) \notin Occupied(last.mid)) =>
        /\ last.outcome = "returned"
        /\ capacity = last.mid.capacity
        /\ \E t \in 0..(capacity - 1) :
               /\ ProbeSlot(last.key, capacity, t) \notin Occupied(last.mid)
               /\ \A u \in 0..(t - 1) :
                      ProbeSlot(last.key, capacity, u) \in Occupied(last.mid)
               /\ buckets = [last.mid.buckets EXCEPT
                                ![ProbeSlot(last.key, capacity, t)]
                                    = HashEntry(last.key, last.arg)]
        /\ (capacity = 5 /\ Occupied(last.mid) = {ProbeSlot(last.key, 5, 0)}) =>
               buckets[ProbeSlot(last.key, 5, 1)] = HashEntry(last.key, last.arg)

\* C19 witness: with capacity 5 the third of three keys with the same initial index
\* was stored at (initial + 4) mod 5
C19_Witness ==
    /\ OA /\ Returned("put")
    /\ capacity = 5
    /\ last.mid.buckets[ProbeSlot(last.key, 5, 0)] # EmptySlot
    /\ last.mid.buckets[ProbeSlot(last.key, 5, 1)] # EmptySlot
    /\ last.mid.buckets[ProbeSlot(last.key, 5, 2)] = EmptySlot
    /\ IsLive(buckets[ProbeSlot(last.key, 5, 2)])
    /\ buckets[ProbeSlot(last.key, 5, 2)].key = last.key

\* C20: open addressing: empty_buckets() counts the never-occupied slots: it is
\* capacity minus the live entries minus the tombstones in every reachable state,
\* remove never changes it, and right after clear or any resize, which drops all
\* tombstones, it is capacity minus size.
C20_EmptyBuckets ==
    OA => /\ oa_empty_buckets(Cur)
                 = capacity - Cardinality({i \in DOMAIN buckets : IsLive(buckets[i])})
                            - Cardinality({i \in DOMAIN buckets : IsTombstone(buckets[i])})
          /\ last.op = "empty_buckets" =>
                 last.result = last.pre.capacity - Cardinality(Occupied(last.pre))
          /\ last.op = "remove" => oa_empty_buckets(Cur) = oa_empty_buckets(last.pre)
          /\ (last.op = "clear" \/ (last.op = "resize_table" /\ last.arg >= last.pre.size)) =>
                 oa_empty_buckets(Cur) = capacity - size
          /\ (last.op = "put" /\ last.mid.capacity # last.pre.capacity) =>
                 oa_empty_buckets(last.mid) = last.mid.capacity - last.mid.size

\* C20 witness: a live key was removed from an array that held a tombstone already
C20_Witness ==
    /\ OA /\ Returned("remove")
    /\ size = last.pre.size - 1
    /\ \E i \in DOMAIN last.pre.buckets : IsTombstone(last.pre.buckets[i])
    /\ oa_empty_buckets(Cur) < capacity - size - 1

====
